---- MODULE Spec2Model ----
(***************************************************************************)
(* A model of src/src/hip/HIPStream.cpp: the HIPStream<T> device array     *)
(* manager (constructor, destructor, init_arrays, read_arrays), the five   *)
(* elementwise kernels and the dot-product reduction.                      *)
(*                                                                         *)
(* Four specifications share the state:                                    *)
(*   Spec        the host's calls on one manager, one action per runtime   *)
(*               call of each handler, kernels completing asynchronously;  *)
(*   SpecCtor    the constructor alone, over every array length of the     *)
(*               (scaled) extent type;                                     *)
(*   SpecKernel  one elementwise kernel launch, worker by worker;          *)
(*   SpecDot     one group of one dot_kernel launch, worker by worker,     *)
(*               with its group barrier.                                   *)
(* Element arithmetic is exact (integers).  size_t is SizeBits wide and    *)
(* the group size is 2^LogTBSIZE: both are scaled down from 64 and 1024.   *)
(***************************************************************************)
EXTENDS Integers, Sequences, FiniteSets, TLC

\* ------------------------------------------------------------- bounds
LogTBSIZE == 2
SizeBits == 12
MaxDevices == 1
MaxMP == 1
MaxOps == 2
MaxSeed == 0
MaxInit == 0
SmallMem == 64

\* #define TBSIZE 1024 (a power of two), here 2^LogTBSIZE
TBSIZE == 2 ^ LogTBSIZE

\* template class HIPStream<float>; template class HIPStream<double>;
ElemSizes == {4, 8}

\* the three builds: #if defined(MANAGED) / #elif defined(PAGEFAULT) / #else
Residencies == {"DeviceOnly", "Managed", "HostPagefault"}

\* startScalar, the multiplier of mul, triad and nstream
startScalar == 3

Buffers == {"sums", "d_a", "d_b", "d_c"}
Arrays == {"d_a", "d_b", "d_c"}
ElementKernels == {"init", "copy", "mul", "add", "triad", "nstream"}

\* size_t arithmetic wraps modulo 2^SizeBits
Wrap(x) == x % (2 ^ SizeBits)

\* the largest value of intptr_t
MaxExtent == 2 ^ (SizeBits - 1) - 1

\* totalGlobalMem as a device may report it
MemSizes == {0, SmallMem, 2 ^ (SizeBits - 1), 2 ^ SizeBits - 1}

\* array lengths of the host specification: one element, just below, at and
\* just above a group, and more than the largest dot grid has workers
ArraySizes ==
  {1, TBSIZE - 1, TBSIZE, TBSIZE + 1, 4 * MaxMP * TBSIZE + 2}

\* what memory nobody has written yet may hold
Garbage(g, len) == [i \in 0 .. len - 1 |-> ((i + 1) * (g + 1) + g) % 3]

VARIABLES
  residency,     \* the build's residency strategy
  elemSize,      \* sizeof(T)
  seed,          \* what uninitialized memory holds
  pc,            \* the host's position
  frame,         \* the constructor's arguments and locals
  array_size,    \* member array_size
  dot_num_blocks,\* member dot_num_blocks
  mem,           \* per buffer: how it was allocated, its state, its capacity
  released,      \* per buffer: the release calls made on it
  d_a, d_b, d_c, \* device array contents
  sums,          \* partial sum buffer contents
  h_a, h_b, h_c, \* the host vectors read_arrays fills
  dotResult,     \* what dot() returned
  lastError,     \* the runtime's last error (hipGetLastError)
  inflight,      \* kernels dispatched and not yet complete, in issue order
  op,            \* the operation the host is in
  hist,          \* the last elementwise operation and the contents before it
  lastRet,       \* the operation that returned last
  nops,          \* operations started
  hostRace,      \* the host read a buffer while a kernel was incomplete
  kname, kn,     \* SpecKernel: the kernel launched and its array_size
  wpc, wi,       \* per worker: position and loop index
  acc,           \* accesses made: <<worker, array, index, kind>>
  blk,           \* SpecDot: the group's blockIdx.x
  tb_sum,        \* SpecDot: the group's shared accumulator
  woff,          \* SpecDot: per worker, the loop variable offset
  gen,           \* SpecDot: per worker, barriers passed
  slog           \* SpecDot: tb_sum accesses: <<slot, worker, gen, kind>>

buildVars == <<residency, elemSize, seed>>
hostVars == <<pc, frame, array_size, dot_num_blocks, mem, released,
              d_a, d_b, d_c, sums, h_a, h_b, h_c, dotResult, lastError,
              inflight, op, hist, lastRet, nops, hostRace>>
kernVars == <<kname, kn, wpc, wi, acc>>
dotVars == <<blk, tb_sum, woff, gen, slog>>
vars == <<buildVars, hostVars, kernVars, dotVars>>

\* ------------------------------------------------- kernels, as functions

\* constexpr size_t ceil_div(size_t a, size_t b)
ceil_div(a, b) == Wrap(a + b - 1) \div b

\* the grid of an elementwise launch: blocks = ceil_div(array_size, TBSIZE)
ElementGrid(n) == ceil_div(n, TBSIZE)

\* GlobalId without the group's offset: threadIdx.x alone
GlobalIdInGroup(thread, block) == thread

\* a worker's first index: threadIdx.x + blockDim.x * blockIdx.x
GlobalId(thread, block) == thread + TBSIZE * block

\* what a worker adds to i after each iteration: gridDim.x * blockDim.x
GridStride(blocks) == blocks * TBSIZE

\* the arrays a kernel's loop body reads and writes at index i
Reads(k) ==
  CASE k = "init" -> {}
    [] k = "copy" -> {"d_a"}
    [] k = "mul" -> {"d_c"}
    [] k = "add" -> {"d_a", "d_b"}
    [] k = "triad" -> {"d_b", "d_c"}
    [] k = "nstream" -> {"d_a", "d_b", "d_c"}
    [] k = "dot" -> {"d_a", "d_b"}

Writes(k) ==
  CASE k = "init" -> {"d_a", "d_b", "d_c"}
    [] k = "copy" -> {"d_c"}
    [] k = "mul" -> {"d_b"}
    [] k = "add" -> {"d_c"}
    [] k = "triad" -> {"d_a"}
    [] k = "nstream" -> {"d_a"}
    [] k = "dot" -> {}

\* ElementBody with nstream's "+=" written as "=": A_old is dropped
ElementBodyAssigns(k, i, m, args) ==
  CASE k = "init" ->
         [a |-> [m.a EXCEPT ![i] = args[1]],
          b |-> [m.b EXCEPT ![i] = args[2]],
          c |-> [m.c EXCEPT ![i] = args[3]]]
    [] k = "copy" -> [m EXCEPT !.c[i] = m.a[i]]
    [] k = "mul" -> [m EXCEPT !.b[i] = startScalar * m.c[i]]
    [] k = "add" -> [m EXCEPT !.c[i] = m.a[i] + m.b[i]]
    [] k = "triad" -> [m EXCEPT !.a[i] = m.b[i] + startScalar * m.c[i]]
    [] k = "nstream" -> [m EXCEPT !.a[i] = m.b[i] + startScalar * m.c[i]]

\* one iteration of a kernel's loop at index i, on m = [a, b, c]
ElementBody(k, i, m, args) ==
  CASE k = "init" ->
         [a |-> [m.a EXCEPT ![i] = args[1]],
          b |-> [m.b EXCEPT ![i] = args[2]],
          c |-> [m.c EXCEPT ![i] = args[3]]]
    [] k = "copy" -> [m EXCEPT !.c[i] = m.a[i]]
    [] k = "mul" -> [m EXCEPT !.b[i] = startScalar * m.c[i]]
    [] k = "add" -> [m EXCEPT !.c[i] = m.a[i] + m.b[i]]
    [] k = "triad" -> [m EXCEPT !.a[i] = m.b[i] + startScalar * m.c[i]]
    [] k = "nstream" ->
         [m EXCEPT !.a[i] = m.a[i] + (m.b[i] + startScalar * m.c[i])]

\* for (i = first; i < array_size; i += stride) body
RECURSIVE WorkerLoop(_, _, _, _, _, _)
WorkerLoop(k, i, stride, n, m, args) ==
  IF i < n
    THEN WorkerLoop(k, i + stride, stride, n, ElementBody(k, i, m, args), args)
    ELSE m

\* the whole grid of an elementwise kernel: workers w = 0 .. blocks*TBSIZE-1,
\* each running its loop on what the workers before it left (no worker
\* changes an array's length)
RECURSIVE RunGrid(_, _, _, _, _, _)
RunGrid(k, w, blocks, n, m, args) ==
  IF w >= blocks * TBSIZE
    THEN m
    ELSE LET after == WorkerLoop(k, GlobalId(w % TBSIZE, w \div TBSIZE),
                                 GridStride(blocks), n, m, args)
         IN  IF DOMAIN after.a = DOMAIN m.a
               THEN RunGrid(k, w + 1, blocks, n, after, args)
               ELSE after

\* dot_kernel: a worker's accumulation tb_sum[local_i] += a[i] * b[i]
RECURSIVE DotAccumulate(_, _, _, _, _, _)
DotAccumulate(i, stride, n, a, b, s) ==
  IF i < n
    THEN DotAccumulate(i + stride, stride, n, a, b, s + a[i] * b[i])
    ELSE s

\* dot_kernel: one halving step, every worker below offset adding
TreeStep(tb, offset) ==
  [l \in 0 .. TBSIZE - 1 |->
     IF l < offset THEN tb[l] + tb[l + offset] ELSE tb[l]]

\* dot_kernel: for (offset = blockDim.x / 2; offset > 0; offset /= 2)
RECURSIVE TreeReduce(_, _)
TreeReduce(tb, offset) ==
  IF offset > 0 THEN TreeReduce(TreeStep(tb, offset), offset \div 2) ELSE tb

\* dot_kernel: what group `block` leaves in tb_sum[0]
DotBlock(block, blocks, n, a, b) ==
  TreeReduce([l \in 0 .. TBSIZE - 1 |->
                DotAccumulate(GlobalId(l, block), GridStride(blocks), n, a, b, 0)],
             TBSIZE \div 2)[0]

\* dot_kernel over a grid of `blocks` groups: if (local_i == 0) sum[blockIdx.x] = ...
DotKernel(blocks, n, a, b, s) ==
  [g \in DOMAIN s |-> IF g < blocks THEN DotBlock(g, blocks, n, a, b) ELSE s[g]]

\* DotGrid sized like the elementwise launches, not by dot_num_blocks
DotGridByLength(blocks, n) == (n + TBSIZE - 1) \div TBSIZE

\* the grid dot() launches: dim3(dot_num_blocks)
DotGrid(blocks, n) == blocks

\* dot(): for (i = 0; i < dot_num_blocks; i++) sum += sums[i]
RECURSIVE HostSum(_, _, _, _)
HostSum(s, i, blocks, total) ==
  IF i < blocks THEN HostSum(s, i + 1, blocks, total + s[i]) ELSE total

\* SyncAfterLaunch with copy() returning right after its launch
SyncAfterLaunchButCopy(k) == k # "copy"

\* each operation calls hipDeviceSynchronize() after its launch
SyncAfterLaunch(k) == TRUE

\* ------------------------------------------------------ the host: state

NoArray == Garbage(0, 0)
NoOp == [k |-> "none", args |-> <<>>]
NoHist == [k |-> "none", args |-> <<>>, a |-> NoArray, b |-> NoArray, c |-> NoArray]
NoBuffer == [api |-> "none", state |-> "unallocated", elems |-> 0]

\* the constructor's frame once the constructor has returned
NoFrame ==
  [ARRAY_SIZE |-> 0, device_index |-> 0, count |-> 0, totalGlobalMem |-> 0,
   multiProcessorCount |-> 0, array_bytes |-> 0]

KernelIdle ==
  /\ kname = "none" /\ kn = 0 /\ wpc = <<>> /\ wi = <<>> /\ acc = {}
  /\ blk = 0 /\ tb_sum = <<>> /\ woff = <<>> /\ gen = <<>> /\ slog = {}

\* HIPStream(const intptr_t ARRAY_SIZE, const int device_index) is entered
InitHost(sizes) ==
  /\ residency \in Residencies
  /\ elemSize \in ElemSizes
  /\ seed \in 0 .. MaxSeed
  /\ pc = "new"
  /\ frame \in [ARRAY_SIZE : sizes, device_index : -1 .. MaxDevices, count : {0},
                totalGlobalMem : {0}, multiProcessorCount : {0}, array_bytes : {0}]
  /\ array_size = 0
  /\ dot_num_blocks = 0
  /\ mem = [x \in Buffers |-> NoBuffer]
  /\ released = [x \in Buffers |-> <<>>]
  /\ d_a = NoArray /\ d_b = NoArray /\ d_c = NoArray /\ sums = NoArray
  /\ h_a = NoArray /\ h_b = NoArray /\ h_c = NoArray
  /\ dotResult = 0
  /\ lastError = "hipSuccess"
  /\ inflight = <<>>
  /\ op = NoOp
  /\ hist = NoHist
  /\ lastRet = "none"
  /\ nops = 0
  /\ hostRace = FALSE
  /\ KernelIdle

\* check_error(): a failed status, now or pending, ends the process
CheckFails(ok) == ~ok \/ lastError # "hipSuccess"

\* std::cerr << "Error: " << ...; exit(err);  With the process its memory,
\* the device's work for it and the results it held are gone.
Exit ==
  /\ pc' = "exited"
  /\ lastError' = "hipError"
  /\ d_a' = NoArray /\ d_b' = NoArray /\ d_c' = NoArray /\ sums' = NoArray
  /\ h_a' = NoArray /\ h_b' = NoArray /\ h_c' = NoArray
  /\ dotResult' = 0
  /\ hist' = NoHist
  /\ inflight' = <<>>

\* a fault on memory that is not there kills the process
Crash ==
  /\ pc' = "crashed"
  /\ UNCHANGED lastError
  /\ d_a' = NoArray /\ d_b' = NoArray /\ d_c' = NoArray /\ sums' = NoArray
  /\ h_a' = NoArray /\ h_b' = NoArray /\ h_c' = NoArray
  /\ dotResult' = 0
  /\ hist' = NoHist
  /\ inflight' = <<>>

\* what the device and the host hold
contents == <<d_a, d_b, d_c, sums, h_a, h_b, h_c, dotResult, hist, inflight>>

\* a buffer the kernels may index up to array_size
Usable(x) == mem[x].state = "live" /\ mem[x].elems >= array_size

\* ------------------------------------------------ the host: constructor

\* hipGetDeviceCount(&count); check_error();
CtorDeviceCount ==
  /\ pc = "new"
  /\ \E ok \in BOOLEAN, cnt \in 0 .. MaxDevices :
       IF CheckFails(ok)
         THEN Exit /\ UNCHANGED frame
         ELSE /\ frame' = [frame EXCEPT !.count = cnt]
              /\ pc' = "ctor_setdev"
              /\ UNCHANGED <<lastError, contents>>
  /\ UNCHANGED <<buildVars, array_size, dot_num_blocks, mem, released, op,
                 lastRet, nops, hostRace, kernVars, dotVars>>

\* if (device_index >= count) throw std::runtime_error("Invalid device index");
ThrowsInvalidDevice(device_index, count) == device_index >= count

\* hipSetDevice succeeds only for a device of the enumerated range
DeviceExists(device_index, count) == device_index \in 0 .. count - 1

\* if (device_index >= count) throw ...; hipSetDevice(device_index); check_error();
CtorSetDevice ==
  /\ pc = "ctor_setdev"
  /\ IF ThrowsInvalidDevice(frame.device_index, frame.count)
       THEN pc' = "InvalidDevice" /\ UNCHANGED <<lastError, contents>>
       ELSE \E ok \in BOOLEAN :
              IF CheckFails(ok /\ DeviceExists(frame.device_index, frame.count))
                THEN Exit
                ELSE pc' = "ctor_info" /\ UNCHANGED <<lastError, contents>>
  /\ UNCHANGED <<buildVars, frame, array_size, dot_num_blocks, mem, released,
                 op, lastRet, nops, hostRace, kernVars, dotVars>>

\* getDeviceName(device_index), getDeviceDriver(device_index): three checked calls
CtorDeviceInfo ==
  /\ pc = "ctor_info"
  /\ \E ok \in BOOLEAN :
       IF CheckFails(ok)
         THEN Exit
         ELSE pc' = "ctor_props" /\ UNCHANGED <<lastError, contents>>
  /\ UNCHANGED <<buildVars, frame, array_size, dot_num_blocks, mem, released,
                 op, lastRet, nops, hostRace, kernVars, dotVars>>

\* size_t array_bytes = sizeof(T); array_bytes *= ARRAY_SIZE;
ArrayBytes(esize, n) == Wrap(esize * n)

\* hipGetDeviceProperties; check_error(); array_size, dot_num_blocks, array_bytes
CtorProperties ==
  /\ pc = "ctor_props"
  /\ \E ok \in BOOLEAN, total \in MemSizes, mp \in 1 .. MaxMP :
       IF CheckFails(ok)
         THEN Exit /\ UNCHANGED <<frame, array_size, dot_num_blocks>>
         ELSE /\ frame' = [frame EXCEPT !.totalGlobalMem = total,
                                        !.multiProcessorCount = mp,
                                        !.array_bytes = ArrayBytes(elemSize, frame.ARRAY_SIZE)]
              /\ array_size' = frame.ARRAY_SIZE
              /\ dot_num_blocks' = mp * 4
              /\ pc' = "ctor_sums"
              /\ UNCHANGED <<lastError, contents>>
  /\ UNCHANGED <<buildVars, mem, released, op, lastRet, nops, hostRace,
                 kernVars, dotVars>>

\* hipHostMalloc(&sums, sizeof(T) * dot_num_blocks, ...); check_error();
CtorAllocSums ==
  /\ pc = "ctor_sums"
  /\ \E ok \in BOOLEAN :
       IF CheckFails(ok)
         THEN Exit /\ UNCHANGED mem
         ELSE /\ mem' = [mem EXCEPT !["sums"] =
                           [api |-> "hipHostMalloc", state |-> "live",
                            elems |-> Wrap(elemSize * dot_num_blocks) \div elemSize]]
              /\ sums' = Garbage(seed + 3, mem'["sums"].elems)
              /\ pc' = "ctor_fit"
              /\ UNCHANGED <<lastError, d_a, d_b, d_c, h_a, h_b, h_c, dotResult,
                             hist, inflight>>
  /\ UNCHANGED <<buildVars, frame, array_size, dot_num_blocks, released, op,
                 lastRet, nops, hostRace, kernVars, dotVars>>

\* props.totalGlobalMem < std::size_t{3}*array_bytes
DoesNotFit(total, array_bytes) == total < Wrap(3 * array_bytes)

\* if (...) throw std::runtime_error("Device does not have enough memory ...");
CtorCheckFit ==
  /\ pc = "ctor_fit"
  /\ pc' = IF DoesNotFit(frame.totalGlobalMem, frame.array_bytes)
             THEN "InsufficientMemory"
             ELSE "ctor_alloc_a"
  /\ UNCHANGED <<buildVars, frame, array_size, dot_num_blocks, mem, released,
                 lastError, contents, op, lastRet, nops, hostRace, kernVars,
                 dotVars>>

\* the allocation call each build makes for A, B and C
AllocApi(r) ==
  CASE r = "Managed" -> "hipMallocManaged"
    [] r = "HostPagefault" -> "malloc"
    [] r = "DeviceOnly" -> "hipMalloc"

\* hipMalloc and hipMallocManaged are followed by check_error(); malloc is not
AllocChecked(r) == r # "HostPagefault"

\* what one allocation of A, B or C leaves in mem: a buffer of array_bytes
\* bytes, or a null pointer
Allocated(ok) ==
  [api |-> AllocApi(residency),
   state |-> IF ok THEN "live" ELSE "null",
   elems |-> IF ok THEN frame.array_bytes \div elemSize ELSE 0]

\* hipMallocManaged(&d_a, array_bytes) / malloc(array_bytes) / hipMalloc(&d_a, array_bytes)
CtorAllocA ==
  /\ pc = "ctor_alloc_a"
  /\ \E ok \in BOOLEAN :
       IF AllocChecked(residency) /\ CheckFails(ok)
         THEN Exit /\ UNCHANGED mem
         ELSE /\ mem' = [mem EXCEPT !["d_a"] = Allocated(ok)]
              /\ d_a' = Garbage(seed, mem'["d_a"].elems)
              /\ pc' = "ctor_alloc_b"
              /\ UNCHANGED <<lastError, d_b, d_c, sums, h_a, h_b, h_c, dotResult,
                             hist, inflight>>
  /\ UNCHANGED <<buildVars, frame, array_size, dot_num_blocks, released, op,
                 lastRet, nops, hostRace, kernVars, dotVars>>

CtorAllocB ==
  /\ pc = "ctor_alloc_b"
  /\ \E ok \in BOOLEAN :
       IF AllocChecked(residency) /\ CheckFails(ok)
         THEN Exit /\ UNCHANGED mem
         ELSE /\ mem' = [mem EXCEPT !["d_b"] = Allocated(ok)]
              /\ d_b' = Garbage(seed + 1, mem'["d_b"].elems)
              /\ pc' = "ctor_alloc_c"
              /\ UNCHANGED <<lastError, d_a, d_c, sums, h_a, h_b, h_c, dotResult,
                             hist, inflight>>
  /\ UNCHANGED <<buildVars, frame, array_size, dot_num_blocks, released, op,
                 lastRet, nops, hostRace, kernVars, dotVars>>

\* the third allocation; the constructor returns and its frame is gone
CtorAllocC ==
  /\ pc = "ctor_alloc_c"
  /\ \E ok \in BOOLEAN :
       IF AllocChecked(residency) /\ CheckFails(ok)
         THEN Exit /\ UNCHANGED <<mem, frame>>
         ELSE /\ mem' = [mem EXCEPT !["d_c"] = Allocated(ok)]
              /\ d_c' = Garbage(seed + 2, mem'["d_c"].elems)
              /\ pc' = "idle"
              /\ frame' = NoFrame
              /\ UNCHANGED <<lastError, d_a, d_b, sums, h_a, h_b, h_c, dotResult,
                             hist, inflight>>
  /\ UNCHANGED <<buildVars, array_size, dot_num_blocks, released, op, lastRet,
                 nops, hostRace, kernVars, dotVars>>

Ctor ==
  \/ CtorDeviceCount
  \/ CtorSetDevice
  \/ CtorDeviceInfo
  \/ CtorProperties
  \/ CtorAllocSums
  \/ CtorCheckFit
  \/ CtorAllocA
  \/ CtorAllocB
  \/ CtorAllocC

\* ------------------------------------------------ the host: operations

\* the arguments the harness passes to init_arrays
InitArgs == {<<j + 1, j + 2, j>> : j \in 0 .. MaxInit}

\* the grid an operation launches
LaunchGrid(k) ==
  IF k = "dot" THEN DotGrid(dot_num_blocks, array_size) ELSE ElementGrid(array_size)

\* where the host is once the launch and its barrier are behind it
AfterKernel(k) == IF k = "dot" THEN "dot_sum" ELSE "idle"

\* kernel<<<dim3(blocks), dim3(TBSIZE), 0, 0>>>(...); check_error();
Launch(k, args) ==
  /\ pc = "idle"
  /\ nops < MaxOps
  /\ nops' = nops + 1
  /\ op' = [k |-> k, args |-> args]
  /\ IF \E x \in Reads(k) \cup Writes(k) : ~Usable(x)
       THEN \* the kernel indexes memory that is not there: the process is
            \* killed, or the runtime reports the fault to check_error()
            (Crash \/ Exit) /\ UNCHANGED lastRet
       ELSE \E ok \in BOOLEAN :
              IF CheckFails(ok /\ LaunchGrid(k) > 0)
                THEN Exit /\ UNCHANGED lastRet
                ELSE /\ inflight' = Append(inflight,
                                           [k |-> k, args |-> args, blocks |-> LaunchGrid(k)])
                     /\ hist' = IF k \in ElementKernels
                                  THEN [k |-> k, args |-> args, a |-> d_a, b |-> d_b, c |-> d_c]
                                  ELSE hist
                     /\ pc' = IF SyncAfterLaunch(k) THEN "sync" ELSE AfterKernel(k)
                     /\ lastRet' = IF ~SyncAfterLaunch(k) /\ k # "dot" THEN k ELSE lastRet
                     /\ UNCHANGED <<lastError, d_a, d_b, d_c, sums, h_a, h_b, h_c,
                                    dotResult>>
  /\ UNCHANGED <<buildVars, frame, array_size, dot_num_blocks, mem, released,
                 hostRace, kernVars, dotVars>>

\* init_arrays(initA, initB, initC)
InitArrays == \E args \in InitArgs : Launch("init", args)

Copy == Launch("copy", <<>>)

Mul == Launch("mul", <<>>)

Add == Launch("add", <<>>)

Triad == Launch("triad", <<>>)

Nstream == Launch("nstream", <<>>)

\* T dot(), up to its launch
Dot == Launch("dot", <<>>)

\* the device finishes the oldest kernel still running
KernelComplete ==
  /\ inflight # <<>>
  /\ LET kernel == Head(inflight)
         m == RunGrid(kernel.k, 0, kernel.blocks, array_size,
                      [a |-> d_a, b |-> d_b, c |-> d_c], kernel.args)
     IN  IF kernel.k = "dot"
           THEN /\ sums' = DotKernel(kernel.blocks, array_size, d_a, d_b, sums)
                /\ UNCHANGED <<d_a, d_b, d_c>>
           ELSE /\ d_a' = m.a /\ d_b' = m.b /\ d_c' = m.c
                /\ UNCHANGED sums
  /\ inflight' = Tail(inflight)
  /\ UNCHANGED <<buildVars, pc, frame, array_size, dot_num_blocks, mem, released,
                 h_a, h_b, h_c, dotResult, lastError, op, hist, lastRet, nops,
                 hostRace, kernVars, dotVars>>

\* hipDeviceSynchronize() returns once no kernel is running
DeviceIdle == inflight = <<>>

\* hipDeviceSynchronize(); check_error(); of the six kernels' callers and dot()
Sync ==
  /\ pc = "sync"
  /\ DeviceIdle
  /\ \E ok \in BOOLEAN :
       IF CheckFails(ok)
         THEN Exit /\ UNCHANGED lastRet
         ELSE /\ pc' = AfterKernel(op.k)
              /\ lastRet' = IF op.k = "dot" THEN lastRet ELSE op.k
              /\ UNCHANGED <<lastError, contents>>
  /\ UNCHANGED <<buildVars, frame, array_size, dot_num_blocks, mem, released,
                 op, nops, hostRace, kernVars, dotVars>>

\* T sum{}; for (...) sum += sums[i]; return sum;
DotHostSum ==
  /\ pc = "dot_sum"
  /\ dotResult' = HostSum(sums, 0, dot_num_blocks, 0)
  /\ hostRace' = (hostRace \/ inflight # <<>>)
  /\ pc' = "idle"
  /\ lastRet' = "dot"
  /\ UNCHANGED <<buildVars, frame, array_size, dot_num_blocks, mem, released,
                 d_a, d_b, d_c, sums, h_a, h_b, h_c, lastError, inflight, op,
                 hist, nops, kernVars, dotVars>>

\* ----------------------------------------------- the host: read_arrays

\* the first n elements of a buffer, as the host receives them
HostCopy(d, n) == [i \in 0 .. n - 1 |-> d[i]]

\* the builds whose read_arrays is a barrier and an element-wise loop
ReadsInPlace(r) == r \in {"Managed", "HostPagefault"}

\* hipMemcpy(a.data(), d_a, a.size()*sizeof(T), hipMemcpyDeviceToHost); check_error();
\* a blocking copy on the null stream: it waits for the kernels before it
ReadMemcpyA ==
  /\ pc = "idle"
  /\ nops < MaxOps
  /\ ~ReadsInPlace(residency)
  /\ DeviceIdle
  /\ nops' = nops + 1
  /\ op' = [k |-> "read", args |-> <<>>]
  /\ \E ok \in BOOLEAN :
       IF CheckFails(ok /\ Usable("d_a"))
         THEN Exit
         ELSE /\ h_a' = HostCopy(d_a, array_size)
              /\ pc' = "read_b"
              /\ UNCHANGED <<lastError, d_a, d_b, d_c, sums, h_b, h_c, dotResult,
                             hist, inflight>>
  /\ hostRace' = (hostRace \/ inflight # <<>>)
  /\ UNCHANGED <<buildVars, frame, array_size, dot_num_blocks, mem, released,
                 lastRet, kernVars, dotVars>>

ReadMemcpyB ==
  /\ pc = "read_b"
  /\ DeviceIdle
  /\ \E ok \in BOOLEAN :
       IF CheckFails(ok /\ Usable("d_b"))
         THEN Exit
         ELSE /\ h_b' = HostCopy(d_b, array_size)
              /\ pc' = "read_c"
              /\ UNCHANGED <<lastError, d_a, d_b, d_c, sums, h_a, h_c, dotResult,
                             hist, inflight>>
  /\ hostRace' = (hostRace \/ inflight # <<>>)
  /\ UNCHANGED <<buildVars, frame, array_size, dot_num_blocks, mem, released,
                 op, lastRet, nops, kernVars, dotVars>>

ReadMemcpyC ==
  /\ pc = "read_c"
  /\ DeviceIdle
  /\ \E ok \in BOOLEAN :
       IF CheckFails(ok /\ Usable("d_c"))
         THEN Exit /\ UNCHANGED lastRet
         ELSE /\ h_c' = HostCopy(d_c, array_size)
              /\ pc' = "idle"
              /\ lastRet' = "read"
              /\ UNCHANGED <<lastError, d_a, d_b, d_c, sums, h_a, h_b, dotResult,
                             hist, inflight>>
  /\ hostRace' = (hostRace \/ inflight # <<>>)
  /\ UNCHANGED <<buildVars, frame, array_size, dot_num_blocks, mem, released,
                 op, nops, kernVars, dotVars>>

\* hipDeviceSynchronize(); with no check_error() after it
ReadSync ==
  /\ pc = "idle"
  /\ nops < MaxOps
  /\ ReadsInPlace(residency)
  /\ DeviceIdle
  /\ nops' = nops + 1
  /\ op' = [k |-> "read", args |-> <<>>]
  /\ \E ok \in BOOLEAN : lastError' = IF ok THEN lastError ELSE "hipError"
  /\ pc' = "read_copy"
  /\ UNCHANGED <<buildVars, frame, array_size, dot_num_blocks, mem, released,
                 contents, lastRet, hostRace, kernVars, dotVars>>

\* for (i = 0; i < array_size; i++) { a[i] = d_a[i]; b[i] = d_b[i]; c[i] = d_c[i]; }
ReadCopy ==
  /\ pc = "read_copy"
  /\ IF \E x \in Arrays : ~Usable(x)
       THEN \* the host indexes memory that is not there
            Crash /\ UNCHANGED <<lastRet, hostRace>>
       ELSE /\ h_a' = HostCopy(d_a, array_size)
            /\ h_b' = HostCopy(d_b, array_size)
            /\ h_c' = HostCopy(d_c, array_size)
            /\ hostRace' = (hostRace \/ inflight # <<>>)
            /\ pc' = "idle"
            /\ lastRet' = "read"
            /\ UNCHANGED <<lastError, d_a, d_b, d_c, sums, dotResult, hist,
                           inflight>>
  /\ UNCHANGED <<buildVars, frame, array_size, dot_num_blocks, mem, released,
                 op, nops, kernVars, dotVars>>

\* ------------------------------------------------ the host: destructor

\* the release call that gives back what an allocation call handed out
Matches(allocApi, releaseApi) ==
  \/ allocApi = "hipHostMalloc" /\ releaseApi = "hipHostFree"
  \/ allocApi \in {"hipMalloc", "hipMallocManaged"} /\ releaseApi = "hipFree"
  \/ allocApi = "malloc" /\ releaseApi = "free"

\* the release call the destructor makes on each buffer
ReleaseApi(x) == IF x = "sums" THEN "hipHostFree" ELSE "hipFree"

\* hipHostFree(sums) / hipFree(d_x); check_error();  The runtime frees a live
\* buffer of its own, takes a null pointer as a no-op and reports any other
\* pointer as an invalid value.  What a freed buffer held is gone.
Free(x, here, next) ==
  /\ pc = here
  /\ released' = [released EXCEPT ![x] = Append(@, ReleaseApi(x))]
  /\ \E ok \in BOOLEAN :
       LET known == mem[x].state = "null" \/ Matches(mem[x].api, ReleaseApi(x))
       IN  IF CheckFails(ok /\ known)
             THEN Exit /\ UNCHANGED mem
             ELSE /\ mem' = [mem EXCEPT ![x].state =
                               IF @ = "live" THEN "released" ELSE @]
                  /\ pc' = next
                  /\ sums' = IF x = "sums" THEN NoArray ELSE sums
                  /\ d_a' = IF x = "d_a" THEN NoArray ELSE d_a
                  /\ d_b' = IF x = "d_b" THEN NoArray ELSE d_b
                  /\ d_c' = IF x = "d_c" THEN NoArray ELSE d_c
                  /\ UNCHANGED <<lastError, h_a, h_b, h_c, dotResult, hist, inflight>>
  /\ UNCHANGED <<buildVars, frame, array_size, dot_num_blocks, op, lastRet, nops,
                 hostRace, kernVars, dotVars>>

\* ~HIPStream()
FreeSums == Free("sums", "idle", "free_a")

FreeA == Free("d_a", "free_a", "free_b")

FreeB == Free("d_b", "free_b", "free_c")

FreeC == Free("d_c", "free_c", "destroyed")

\* ------------------------------------------------- the host: behaviours

Init == InitHost(ArraySizes)

Next ==
  \/ Ctor
  \/ InitArrays \/ Copy \/ Mul \/ Add \/ Triad \/ Nstream \/ Dot
  \/ KernelComplete \/ Sync \/ DotHostSum
  \/ ReadMemcpyA \/ ReadMemcpyB \/ ReadMemcpyC \/ ReadSync \/ ReadCopy
  \/ FreeSums \/ FreeA \/ FreeB \/ FreeC

Spec == Init /\ [][Next]_vars

\* the constructor alone, for every array length intptr_t holds
InitCtor == InitHost(0 .. MaxExtent)

NextCtor == Ctor

SpecCtor == InitCtor /\ [][NextCtor]_vars

\* ------------------------------------- one elementwise launch, by worker

\* array lengths of the worker-level specifications of the elementwise kernels
KernelSizes == {1, TBSIZE - 1, TBSIZE, TBSIZE + 1}

\* the host inside an operation's barrier, on a manager of n elements and
\* `blocks` partial sums whose buffers nobody has written yet
HostInBarrier(k, n, blocks, seeds) ==
  /\ residency = "DeviceOnly"
  /\ elemSize = 4
  /\ seed \in seeds
  /\ pc = "sync"
  /\ frame = NoFrame
  /\ array_size = n
  /\ dot_num_blocks = blocks
  /\ mem = [x \in Buffers |->
              [api |-> IF x = "sums" THEN "hipHostMalloc" ELSE AllocApi(residency),
               state |-> "live",
               elems |-> IF x = "sums" THEN blocks ELSE n]]
  /\ released = [x \in Buffers |-> <<>>]
  /\ d_a = Garbage(seed, n) /\ d_b = Garbage(seed + 1, n) /\ d_c = Garbage(seed + 2, n)
  /\ sums = Garbage(seed + 3, blocks)
  /\ h_a = NoArray /\ h_b = NoArray /\ h_c = NoArray
  /\ dotResult = 0
  /\ lastError = "hipSuccess"
  /\ inflight = <<[k |-> k, args |-> <<>>, blocks |-> LaunchGrid(k)]>>
  /\ op = [k |-> k, args |-> <<>>]
  /\ hist = NoHist
  /\ lastRet = "none"
  /\ nops = 1
  /\ hostRace = FALSE

\* the workers of a grid of `blocks` groups
Workers(blocks) == 0 .. blocks * TBSIZE - 1

\* kernel<<<dim3(blocks), dim3(TBSIZE)>>>: every worker at its first index
InitKernel ==
  /\ kname \in ElementKernels
  /\ kn \in KernelSizes
  /\ HostInBarrier(kname, kn, 4, {0})
  /\ wpc = [w \in Workers(ElementGrid(kn)) |-> "loop"]
  /\ wi = [w \in Workers(ElementGrid(kn)) |-> GlobalId(w % TBSIZE, w \div TBSIZE)]
  /\ acc = {}
  /\ blk = 0 /\ tb_sum = <<>> /\ woff = <<>> /\ gen = <<>> /\ slog = {}

\* the accesses of one iteration of kernel k's loop by worker w at index i
Accesses(k, w, i) ==
  {<<w, x, i, "read">> : x \in Reads(k)} \cup {<<w, x, i, "write">> : x \in Writes(k)}

\* a worker's next step: its loop test and, when that holds, one iteration
\* and the loop test after it (the test reads the worker's own i only):
\* for (i = ...; i < array_size; i += gridDim.x * blockDim.x) body
WorkerStep(w) ==
  /\ wpc[w] = "loop"
  /\ IF wi[w] < kn
       THEN /\ acc' = acc \cup Accesses(kname, w, wi[w])
            /\ wi' = [wi EXCEPT ![w] = @ + GridStride(ElementGrid(kn))]
            /\ wpc' = [wpc EXCEPT ![w] = IF wi'[w] < kn THEN "loop" ELSE "done"]
       ELSE /\ wpc' = [wpc EXCEPT ![w] = "done"]
            /\ UNCHANGED <<acc, wi>>
  /\ UNCHANGED <<buildVars, hostVars, kname, kn, dotVars>>

NextKernel == \E w \in DOMAIN wpc : WorkerStep(w)

SpecKernel == InitKernel /\ [][NextKernel]_vars

\* --------------------------------- one group of a dot launch, by worker

\* array lengths of the worker-level specification of dot_kernel
DotSizes == {1, TBSIZE + 1, 4 * MaxMP * TBSIZE + 2}

\* SyncParticipates with the barrier inside the if that guards the add
SyncInsideIf(local_i, offset) == local_i < offset

\* __syncthreads() is the first statement of the loop body, outside the if:
\* every worker that enters the body executes it
SyncParticipates(local_i, offset) == TRUE

\* the position of a worker that has set offset to o: at the barrier that
\* opens the loop body, or past the loop
AfterOffset(local_i, o) ==
  IF o > 0
    THEN (IF SyncParticipates(local_i, o) THEN "wait" ELSE "add")
    ELSE "write"

\* dot_kernel<<<dim3(dot_num_blocks), dim3(TBSIZE)>>>: the workers of group blk
InitDot ==
  /\ \E n \in DotSizes, mp \in 1 .. MaxMP :
       /\ HostInBarrier("dot", n, 4 * mp, 0 .. MaxSeed)
       /\ dot_num_blocks = 4 * mp
  /\ blk \in {0, dot_num_blocks - 1}
  /\ kname = "dot"
  /\ kn = array_size
  /\ wpc = [l \in 0 .. TBSIZE - 1 |-> "start"]
  /\ wi = <<>>
  /\ acc = {}
  /\ tb_sum = Garbage(seed + 4, TBSIZE)
  /\ woff = [l \in 0 .. TBSIZE - 1 |-> 0]
  /\ gen = [l \in 0 .. TBSIZE - 1 |-> 0]
  /\ slog = {}

\* tb_sum[local_i] = {}; for (; i < array_size; i += ...) tb_sum[local_i] += a[i] * b[i];
\* then offset = blockDim.x / 2
DotAccum(l) ==
  /\ wpc[l] = "start"
  /\ tb_sum' = [tb_sum EXCEPT ![l] =
                  DotAccumulate(GlobalId(l, blk), GridStride(dot_num_blocks),
                                array_size, d_a, d_b, 0)]
  /\ slog' = slog \cup {<<l, l, gen[l], "write">>}
  /\ woff' = [woff EXCEPT ![l] = TBSIZE \div 2]
  /\ wpc' = [wpc EXCEPT ![l] = AfterOffset(l, TBSIZE \div 2)]
  /\ UNCHANGED <<buildVars, hostVars, kname, kn, wi, acc, blk, gen>>

\* __syncthreads(): the group's workers leave the barrier once all are at it
DotRelease ==
  /\ \A l \in DOMAIN wpc : wpc[l] = "wait"
  /\ wpc' = [l \in DOMAIN wpc |-> "add"]
  /\ gen' = [l \in DOMAIN gen |-> gen[l] + 1]
  /\ UNCHANGED <<buildVars, hostVars, kname, kn, wi, acc, blk, tb_sum, woff, slog>>

\* if (local_i < offset) tb_sum[local_i] += tb_sum[local_i+offset]; offset /= 2
DotAdd(l) ==
  /\ wpc[l] = "add"
  /\ IF l < woff[l]
       THEN /\ tb_sum' = [tb_sum EXCEPT ![l] = @ + tb_sum[l + woff[l]]]
            /\ slog' = slog \cup {<<l + woff[l], l, gen[l], "read">>,
                                  <<l, l, gen[l], "read">>,
                                  <<l, l, gen[l], "write">>}
       ELSE UNCHANGED <<tb_sum, slog>>
  /\ woff' = [woff EXCEPT ![l] = @ \div 2]
  /\ wpc' = [wpc EXCEPT ![l] = AfterOffset(l, woff[l] \div 2)]
  /\ UNCHANGED <<buildVars, hostVars, kname, kn, wi, acc, blk, gen>>

\* if (local_i == 0) sum[blockIdx.x] = tb_sum[local_i];
DotWrite(l) ==
  /\ wpc[l] = "write"
  /\ IF l = 0
       THEN /\ sums' = [sums EXCEPT ![blk] = tb_sum[l]]
            /\ slog' = slog \cup {<<l, l, gen[l], "read">>}
       ELSE UNCHANGED <<sums, slog>>
  /\ wpc' = [wpc EXCEPT ![l] = "done"]
  /\ UNCHANGED <<buildVars, pc, frame, array_size, dot_num_blocks, mem, released,
                 d_a, d_b, d_c, h_a, h_b, h_c, dotResult, lastError, inflight,
                 op, hist, lastRet, nops, hostRace, kname, kn, wi, acc, blk,
                 tb_sum, woff, gen>>

NextDot ==
  \/ \E l \in DOMAIN wpc : DotAccum(l)
  \/ DotRelease
  \/ \E l \in DOMAIN wpc : DotAdd(l)
  \/ \E l \in DOMAIN wpc : DotWrite(l)

SpecDot == InitDot /\ [][NextDot]_vars

\* ------------------------------------------------------------ claims

\* the sequential inner product of the first n elements, from index i on
RECURSIVE InnerProduct(_, _, _, _)
InnerProduct(a, b, i, n) ==
  IF i < n THEN a[i] * b[i] + InnerProduct(a, b, i + 1, n) ELSE 0

\* the part of the inner product that falls to group g of a grid of `blocks`
RECURSIVE GroupShare(_, _, _, _, _, _)
GroupShare(a, b, i, n, g, blocks) ==
  IF i < n
    THEN (IF (i \div TBSIZE) % blocks = g THEN a[i] * b[i] ELSE 0)
         + GroupShare(a, b, i + 1, n, g, blocks)
    ELSE 0

\* C1: whenever dot() has returned, its result is the sum over i in [0,n) of
\* A[i]*B[i], and every one of the dot_num_blocks entries of the partial sum
\* buffer holds its group's share of it (0 for a group with no index),
\* whatever the buffer held before the call.
C1_DotIsInnerProduct ==
  (pc = "idle" /\ lastRet = "dot") =>
    /\ dotResult = InnerProduct(d_a, d_b, 0, array_size)
    /\ DOMAIN sums = 0 .. dot_num_blocks - 1
    /\ \A g \in 0 .. dot_num_blocks - 1 :
         sums[g] = GroupShare(d_a, d_b, 0, array_size, g, dot_num_blocks)

\* C1's case: dot() returned a non-zero sum of an array longer than the grid
C1_Witness ==
  /\ pc = "idle" /\ lastRet = "dot"
  /\ array_size > dot_num_blocks * TBSIZE
  /\ dotResult # 0

\* the operation table applied to the contents before the call
Expected(h, n) ==
  [a |-> [i \in 0 .. n - 1 |->
            CASE h.k = "init" -> h.args[1]
              [] h.k = "triad" -> h.b[i] + startScalar * h.c[i]
              [] h.k = "nstream" -> h.a[i] + h.b[i] + startScalar * h.c[i]
              [] OTHER -> h.a[i]],
   b |-> [i \in 0 .. n - 1 |->
            CASE h.k = "init" -> h.args[2]
              [] h.k = "mul" -> startScalar * h.c[i]
              [] OTHER -> h.b[i]],
   c |-> [i \in 0 .. n - 1 |->
            CASE h.k = "init" -> h.args[3]
              [] h.k = "copy" -> h.a[i]
              [] h.k = "add" -> h.a[i] + h.b[i]
              [] OTHER -> h.c[i]]]

\* C2: whenever read_arrays() has returned after an elementwise operation,
\* under any of the three residency strategies, the host vectors hold the
\* operation table applied to the contents before that operation at every
\* index of [0,n), the arrays the operation does not write being unchanged.
C2_ReadArraysSeesOperationTable ==
  (pc = "idle" /\ lastRet = "read" /\ hist.k # "none") =>
    /\ h_a = Expected(hist, array_size).a
    /\ h_b = Expected(hist, array_size).b
    /\ h_c = Expected(hist, array_size).c

\* C2's case: nstream ran on an array one longer than a group, on arrays that
\* differ from index to index, and was read back under the pagefault build
C2_Witness ==
  /\ pc = "idle" /\ lastRet = "read" /\ hist.k = "nstream"
  /\ residency = "HostPagefault"
  /\ array_size = TBSIZE + 1
  /\ h_a[0] # h_a[1]

\* C4: at most one kernel is ever incomplete; the host is inside a launching
\* operation's barrier whenever one is; and the host never read A, B, C or
\* the partial sum buffer while one was.
C4_SynchronousDispatch ==
  /\ Len(inflight) <= 1
  /\ inflight # <<>> => pc = "sync"
  /\ ~hostRace

\* C4's case: a kernel ran to completion before dot's kernel, which is
\* complete too, and the host is about to read the partial sums
C4_Witness == pc = "dot_sum" /\ hist.k # "none" /\ inflight = <<>>

\* C5: the constructor's device-selection step throws InvalidDevice exactly
\* when device_index is outside [0, count).
C5_InvalidDeviceIffOutOfRange ==
  [][pc = "ctor_setdev" =>
       ((pc' = "InvalidDevice") <=> (frame.device_index \notin 0 .. frame.count - 1))]_vars

\* C6: past the constructor's memory check, InsufficientMemory was raised
\* exactly when the true product 3 * length * element_size exceeds the
\* device's memory, so A, B, C are allocated only when they fit.
C6_InsufficientMemoryIffTooLarge ==
  /\ pc = "InsufficientMemory" => 3 * frame.ARRAY_SIZE * elemSize > frame.totalGlobalMem
  /\ pc \in {"ctor_alloc_a", "ctor_alloc_b", "ctor_alloc_c"} =>
       3 * frame.ARRAY_SIZE * elemSize <= frame.totalGlobalMem

\* the host positions of a constructed manager that is not yet being destroyed
Live == {"idle", "sync", "dot_sum", "read_b", "read_c", "read_copy"}

\* C7: a buffer that was allocated stays allocated while the manager is in
\* use, the destructor's release call on each buffer matches the call that
\* allocated it and is made once, and after destruction none is allocated.
C7_ReleasedOnceByMatchingCall ==
  /\ pc \in Live => \A x \in Buffers : mem[x].state \in {"live", "null"}
  /\ \A x \in Buffers :
       /\ Len(released[x]) <= 1
       /\ \A j \in DOMAIN released[x] : Matches(mem[x].api, released[x][j])
  /\ pc = "destroyed" =>
       \A x \in Buffers : mem[x].state = "released" /\ Len(released[x]) = 1

\* C8: once an allocation, dispatch, synchronization or transfer has reported
\* a failure (a non-success status, a null pointer), the process has
\* terminated.
C8_FailureTerminates ==
  (lastError # "hipSuccess" \/ \E x \in Buffers : mem[x].state = "null") =>
    pc = "exited"

\* C10: when the constructor has thrown InvalidDevice or InsufficientMemory,
\* none of the four buffers is allocated.
C10_NothingAllocatedAfterThrow ==
  pc \in {"InvalidDevice", "InsufficientMemory"} =>
    \A x \in Buffers : mem[x].state # "live"

\* the workers that accessed index i of some array
Accessors(i) == {e[1] : e \in {f \in acc : f[3] = i}}

\* C3: in an elementwise launch, under any interleaving, no worker accesses
\* an index >= array_size, no index is accessed by two workers (so no two
\* workers write one element and none reads what another writes), and once
\* the grid is complete every index of [0, array_size) has been read and
\* written, as the kernel's table says, by exactly one worker.
C3_OneWorkerPerIndex ==
  /\ \A e \in acc : e[3] < kn
  /\ \A i \in 0 .. kn - 1 : Cardinality(Accessors(i)) <= 1
  /\ (\A w \in DOMAIN wpc : wpc[w] = "done") =>
       \A i \in 0 .. kn - 1 :
         /\ Cardinality(Accessors(i)) = 1
         /\ {e[2] : e \in {f \in acc : f[3] = i /\ f[4] = "read"}} = Reads(kname)
         /\ {e[2] : e \in {f \in acc : f[3] = i /\ f[4] = "write"}} = Writes(kname)

\* C3's case: an nstream grid of two groups is complete, the last index having
\* been handled by the first worker of the second group
C3_Witness ==
  /\ kname = "nstream" /\ kn = TBSIZE + 1
  /\ \A w \in DOMAIN wpc : wpc[w] = "done"
  /\ <<TBSIZE, "d_a", TBSIZE, "write">> \in acc

\* the number of the halving step in which offset has the value o
RECURSIVE StepOf(_, _)
StepOf(o, from) == IF o >= from THEN 1 ELSE 1 + StepOf(o, from \div 2)

\* two accesses to one tb_sum slot by different workers, one of them a
\* write, with no barrier between them
Unseparated(e, f) ==
  /\ e[1] = f[1] /\ e[2] # f[2] /\ e[3] = f[3]
  /\ "write" \in {e[4], f[4]}

\* C9: in the tree reduction of one group, under any interleaving, every
\* worker has passed one barrier per halving step it is in, whether or not it
\* adds; no read of a slot is unseparated by a barrier from a write of it by
\* another worker; the group is never stuck before every worker is done; and
\* once worker 0 is done the group's entry of the partial sum buffer is the
\* sum of all the slots' accumulations and no other entry was touched.
C9_TreeReduction ==
  /\ \A l \in DOMAIN wpc :
       wpc[l] = "add" => gen[l] = StepOf(woff[l], TBSIZE \div 2)
  /\ \A e \in slog : \A f \in slog : ~Unseparated(e, f)
  /\ (\E l \in DOMAIN wpc : wpc[l] # "done") => ENABLED NextDot
  /\ wpc[0] = "done" =>
       /\ sums[blk] = GroupShare(d_a, d_b, 0, array_size, blk, dot_num_blocks)
       /\ \A g \in DOMAIN sums : g # blk => sums[g] = Garbage(seed + 3, dot_num_blocks)[g]

\* C9's case: a group with work at every slot has finished a reduction whose
\* first step read slot TBSIZE-1, and the sum it wrote is not zero
C9_Witness ==
  /\ \A l \in DOMAIN wpc : wpc[l] = "done"
  /\ array_size > TBSIZE
  /\ <<TBSIZE - 1, TBSIZE \div 2 - 1, 1, "read">> \in slog
  /\ sums[blk] # 0

====
